---- MODULE Spec2Model ----
(***************************************************************************)
(* A model of the UCI protocol shell of src/py_uci.py (class UCIEngine):   *)
(* the dispatch loop run(), the command handlers, and the search worker    *)
(* thread(s) started by "go".                                              *)
(*                                                                         *)
(* Two kinds of threads take steps: the dispatcher (run and the handlers   *)
(* it calls) and the workers (_search_worker), one per job that was        *)
(* spawned.  Every step below is a piece of code between two points where  *)
(* the other kind of thread can make a difference.                         *)
(*                                                                         *)
(* The chess rules (python-chess: chess.Board, chess.Move) are outside the *)
(* repository.  They are replaced by a small game with the same interface: *)
(* a position is a root (the initial position, or one decoded from a FEN)  *)
(* and the moves pushed onto it; each side owns some moves and may play    *)
(* each of them once.                                                       *)
(***************************************************************************)
EXTENDS Naturals, Sequences, FiniteSets, TLC

----------------------------------------------------------------------------
(* Bounds of the model *)

\* input lines the dispatcher reads in one run
MaxLines == 3
\* jobs ("go" commands that reach _start_search) in one run
MaxJobs == 2
\* calls of the info callback by one Strategy invocation
MaxInfoCalls == 2
\* move tokens in one "position" command
MaxMoves == 2
\* the wall clock, in units of 25 ms, stops being advanced here
MaxClock == 4

\* 0.05 s (py_uci.py:346) in units of 25 ms
InfoInterval == 2

None == "None"

----------------------------------------------------------------------------
(* The rules provider: python-chess, as far as py_uci.py uses it *)

WHITE == TRUE
BLACK == FALSE

Move(f, t) == [from |-> f, to |-> t]

\* chess.Move.from_uci: the moves that decode, by their text
UciTable ==
  [e2e4 |-> Move("e2", "e4"), g1f3 |-> Move("g1", "f3"), e7e5 |-> Move("e7", "e5")]

DecodableTokens == DOMAIN UciTable

\* chess.Move.from_uci(tok) raises (ValueError) on text that is no move
from_uci_raises(tok) == tok \notin DecodableTokens

from_uci(tok) == UciTable[tok]

\* chess.Move.uci(): the text of a move
uci(m) == CHOOSE tok \in DecodableTokens : UciTable[tok] = m

\* the moves each side owns, in the order the move generator yields them
WhiteMoves == <<Move("e2", "e4"), Move("g1", "f3")>>
BlackMoves == <<Move("e7", "e5")>>

\* chess.Board(): the initial position
StartBoard == [root |-> "start", line |-> <<>>]

\* the FEN strings chess.Board(fen) decodes: the six fields of each, and its root
\* White is checkmated
FenMated ==
  <<"rnb1kbnr/pppp1ppp/8/4p3/6Pq/5P2/PPPPP2P/RNBQKBNR", "w", "KQkq", "-", "1", "3">>
\* Black is to move
FenBlack ==
  <<"rnbqkbnr/pppppppp/8/8/4P3/8/PPPP1PPP/RNBQKBNR", "b", "KQkq", "e3", "0", "1">>

fen_raises(fen) == fen \notin {FenMated, FenBlack}

BoardOfFen(fen) ==
  [root |-> IF fen = FenMated THEN "mated" ELSE "black", line |-> <<>>]

RootTurn(root) == IF root = "black" THEN BLACK ELSE WHITE

\* board.turn: the side to move flips with every push
turn(b) == IF Len(b.line) % 2 = 0 THEN RootTurn(b.root) ELSE ~RootTurn(b.root)

Played(b) == {b.line[k] : k \in 1..Len(b.line)}

\* board.push(move): applies the move whether or not it is legal
push(b, m) == [b EXCEPT !.line = Append(@, m)]

\* the squares whose piece has moved away, or that are empty in the root
Vacated(b) ==
  {b.line[k].from : k \in 1..Len(b.line)}
    \cup (IF b.root = "black" THEN {"e2"} ELSE {})

\* board.push(move) finds no piece on the square the move starts from: with
\* assertions on, python-chess raises AssertionError ("push() expects move to
\* be pseudo-legal") and the pieces and the side to move stay as they were
push_may_raise(b, m) == m.from \in Vacated(b)

\* board.copy(stack=False): an equal position that shares nothing with b
copy(b) == [root |-> b.root, line |-> b.line]

\* board.legal_moves, as the sequence its iterator yields
legal_moves(b) ==
  IF b.root = "mated" THEN <<>>
  ELSE SelectSeq(IF turn(b) = WHITE THEN WhiteMoves ELSE BlackMoves,
                 LAMBDA m : m \notin Played(b))

IsLegal(b, m) == \E k \in 1..Len(legal_moves(b)) : legal_moves(b)[k] = m

----------------------------------------------------------------------------
(* Text.  A Python string that py_uci.py builds with " ".join, or sends as  *)
(* one line, is kept as the sequence of its words; str(n) and int(s) are    *)
(* tables over the numbers the model uses.                                  *)

NumberTexts == {"0", "1", "75", "100", "2000"}

\* int(s) raises ValueError on text that is no number
int_raises(s) == s \notin NumberTexts

int(s) ==
  CASE s = "0" -> 0 [] s = "1" -> 1 [] s = "75" -> 75
    [] s = "100" -> 100 [] s = "2000" -> 2000

\* str(n)
str(n) == CHOOSE s \in NumberTexts : int(s) = n

----------------------------------------------------------------------------
(* _parse_go: the limits of one "go" *)

\* the values a limits dict holds: an int, a str (a value int() refused),
\* True, or a float given in thousandths
IntVal(n) == [tag |-> "int", n |-> n, s |-> ""]
StrVal(s) == [tag |-> "str", n |-> 0, s |-> s]
TrueVal == [tag |-> "bool", n |-> 1, s |-> ""]
\* n / 1000.0
FloatVal(n) == [tag |-> "float", n |-> n, s |-> ""]

NoLimits == [k \in {} |-> TrueVal]

Put(d, k, v) == [x \in (DOMAIN d) \cup {k} |-> IF x = k THEN v ELSE d[x]]

NumKeys ==
  {"wtime", "btime", "winc", "binc", "movestogo", "depth", "nodes", "mate", "movetime"}

RECURSIVE parse_go_tokens(_, _, _)
\* the token loop of _parse_go; i counts from 1
parse_go_tokens(tokens, i, limits) ==
  IF i > Len(tokens) THEN limits
  ELSE LET t == tokens[i] IN
    IF t \in NumKeys THEN
      parse_go_tokens(tokens, i + 2,
        IF i + 1 <= Len(tokens)
        THEN Put(limits, t, IF int_raises(tokens[i + 1])
                            THEN StrVal(tokens[i + 1])
                            ELSE IntVal(int(tokens[i + 1])))
        ELSE limits)
    ELSE IF t = "infinite" THEN parse_go_tokens(tokens, i + 1, Put(limits, "infinite", TrueVal))
    ELSE IF t = "ponder" THEN parse_go_tokens(tokens, i + 1, Put(limits, "ponder", TrueVal))
    ELSE parse_go_tokens(tokens, i + 1, limits)

\* the key whose value becomes limits["time"], or None
TimeKey(limits, b) ==
  IF "movetime" \in DOMAIN limits THEN "movetime"
  ELSE IF turn(b) = WHITE /\ "wtime" \in DOMAIN limits THEN "wtime"
  ELSE IF turn(b) = BLACK /\ "btime" \in DOMAIN limits THEN "btime"
  ELSE None

\* limits[k] / 1000.0 raises TypeError when limits[k] is a str
parse_go_raises(tokens, b) ==
  LET limits == parse_go_tokens(tokens, 1, NoLimits)
      k == TimeKey(limits, b)
  IN  k # None /\ limits[k].tag = "str"

parse_go(tokens, b) ==
  LET limits == parse_go_tokens(tokens, 1, NoLimits)
      k == TimeKey(limits, b)
  IN  IF k = None THEN limits ELSE Put(limits, "time", FloatVal(limits[k].n))

----------------------------------------------------------------------------
(* What a Strategy hands back, and the "bestmove" line made of it *)

NoMove == Move("", "")

\* one Python value among those a Strategy returns: a chess.Move or a str
MoveObj(m) == [tag |-> "Move", move |-> m, text |-> ""]
StrObj(s) == [tag |-> "str", move |-> NoMove, text |-> s]

\* str(x), which for a chess.Move is its uci()
str_of(x) == IF x.tag = "Move" THEN uci(x.move) ELSE x.text

\* the outcome of one call of search_fn
ReturnsNone == [kind |-> "None", a |-> StrObj(""), b |-> StrObj("")]
Raises == [kind |-> "raise", a |-> StrObj(""), b |-> StrObj("")]
Returns(x) == [kind |-> "one", a |-> x, b |-> StrObj("")]
ReturnsPair(x, y) == [kind |-> "tuple", a |-> x, b |-> y]

\* self.ponder_move: set in __init__, assigned nowhere else
ponder_move == ""

\* next(iter(board.legal_moves)).uci(), or "(none)" on StopIteration
fallback_move(b) ==
  IF Len(legal_moves(b)) > 0 THEN uci(Head(legal_moves(b))) ELSE "(none)"

\* the line _search_worker sends once search_fn is over; b is self.board as
\* the worker reads it then
bestmove_line(result, b) ==
  IF result.kind = "raise" THEN <<"bestmove", fallback_move(b)>>
  ELSE
    LET best == IF result.kind = "None" THEN fallback_move(b)
                ELSE IF result.kind = "tuple" THEN str_of(result.a)
                ELSE str_of(result.a)
        ponder == IF result.kind = "tuple" THEN str_of(result.b) ELSE ponder_move
    IN  IF ponder # "" THEN <<"bestmove", best, "ponder", ponder>>
        ELSE <<"bestmove", best>>

----------------------------------------------------------------------------
(* _send_info: the words of the "info" line of an info dict.  An info dict  *)
(* is a function from its keys to numbers (time: thousandths of a second),  *)
(* a score dict, or, under "pv", a list of moves.                           *)

NumberWords(info, key) ==
  IF key \in DOMAIN info THEN <<key, str(info[key])>> ELSE <<>>

ScoreWords(info) ==
  IF "score" \notin DOMAIN info THEN <<>>
  ELSE LET sc == info["score"] IN
    IF "cp" \in DOMAIN sc THEN <<"score", "cp", str(sc["cp"])>>
    ELSE IF "mate" \in DOMAIN sc THEN <<"score", "mate", str(sc["mate"])>>
    ELSE <<>>

RECURSIVE PvWords(_)
PvWords(pv) == IF pv = <<>> THEN <<>> ELSE <<uci(Head(pv))>> \o PvWords(Tail(pv))

send_info_line(info) ==
  <<"info">> \o NumberWords(info, "depth") \o NumberWords(info, "seldepth")
    \o ScoreWords(info) \o NumberWords(info, "nodes") \o NumberWords(info, "nps")
    \o (IF "pv" \in DOMAIN info THEN <<"pv">> \o PvWords(info["pv"]) ELSE <<>>)
    \o NumberWords(info, "time")

\* the info dicts the Strategies of the model report (quick_search's shape)
InfoEvent(b) ==
  IF Len(legal_moves(b)) > 0
  THEN [k \in {"depth", "pv"} |-> IF k = "depth" THEN 1 ELSE <<Head(legal_moves(b))>>]
  ELSE [k \in {"depth"} |-> 1]

----------------------------------------------------------------------------
(* The state *)

VARIABLES
  board,          \* self.board: the live Position
  options,        \* self.options, in insertion order: <<name, info>> pairs
  ponder,         \* self.ponder
  search_thread,  \* self.search_thread: a job number, or 0 for None
  stop_event,     \* self.stop_event: TRUE when set
  search_lock,    \* self._search_lock: TRUE when held
  last_info_time, \* self._last_info_time, in units of 25 ms
  clock,          \* the latest value time.time() returned, in units of 25 ms
  jobs,           \* the workers spawned so far, in order
  out,            \* the lines written to stdout, each with the job that wrote it
  dpc,            \* where the dispatcher is: "read", "moves", "join", "done"
  dcall,          \* the first token of the line read last ("run": none yet, or
                  \* end of input)
  dtokens,        \* the tokens after the first of the line read last
  di,             \* _cmd_position's i, counted from 1
  dth,            \* _stop_search's th: the job being joined, or 0
  dlimits,        \* _cmd_go's limits
  nread,          \* the number of lines read
  raised          \* TRUE when the handler of the last line read raised

engine == <<board, options, ponder, search_thread, stop_event, search_lock>>
timing == <<last_info_time, clock>>
disp == <<dpc, dcall, dtokens, di, dth, dlimits, nread, raised>>
vars == <<engine, timing, jobs, out, disp>>

Jobs == 1..Len(jobs)

\* _send: one more line on stdout; who is 0 for the dispatcher, else the job
send(lines, who) ==
  out' = out \o [k \in 1..Len(lines) |-> [line |-> lines[k], job |-> who]]

\* the state after UCIEngine.__init__, before run()
InitEngine ==
  /\ board = StartBoard
  /\ options = <<>>
  /\ ponder = FALSE
  /\ search_thread = 0
  /\ stop_event = FALSE
  /\ search_lock = FALSE
  /\ last_info_time = 0
  /\ clock = InfoInterval
  /\ jobs = <<>>
  /\ out = <<>>
  /\ dpc = "read" /\ dcall = "run" /\ dtokens = <<>> /\ di = 1 /\ dth = 0
  /\ dlimits = NoLimits /\ nread = 0 /\ raised = FALSE

Init == InitEngine

----------------------------------------------------------------------------
(* The dispatcher: run, _handle_line and the handlers *)

\* run reads one more line and splits it: cmd is tokens[0], tokens the rest
Reads(cmd, tokens) ==
  /\ dpc = "read"
  /\ nread < MaxLines
  /\ nread' = nread + 1
  /\ dcall' = cmd
  /\ dtokens' = tokens

\* the locals of a handler are gone when it is over
NoLocals == di' = 1 /\ dth' = 0 /\ dlimits' = NoLimits

\* the handler returned to run, which reads on
Returned == dpc' = "read" /\ raised' = FALSE /\ NoLocals

\* run without its "except Exception": the failure of a handler ends the loop
Caught_exits == dpc' = "done" /\ raised' = TRUE /\ NoLocals

\* the handler raised: run's "except Exception" prints the traceback (stderr)
\* and the loop goes on
Caught == dpc' = "read" /\ raised' = TRUE /\ NoLocals

\* _stop_search(wait=True), up to th.join
stop_search ==
  /\ stop_event' = TRUE
  /\ dth' = search_thread
  /\ search_thread' = 0
  /\ dpc' = "join"
  /\ raised' = FALSE

cmd_isready ==
  /\ Reads("isready", <<>>)
  /\ send(<<(<<"readyok">>)>>, 0)
  /\ Returned
  /\ UNCHANGED <<engine, timing, jobs>>

\* the "else" of _handle_line answering on stdout instead of logging
unknown_command_replies(cmd) ==
  /\ Reads(cmd, <<>>)
  /\ send(<<(<<"Unknown", "command:", cmd>>)>>, 0)
  /\ Returned
  /\ UNCHANGED <<engine, timing, jobs>>

\* "else" of _handle_line: logged, nothing more
unknown_command(cmd) ==
  /\ Reads(cmd, <<>>)
  /\ Returned
  /\ UNCHANGED <<engine, timing, jobs, out>>

cmd_ponderhit ==
  /\ Reads("ponderhit", <<>>)
  /\ ponder' = FALSE
  /\ Returned
  /\ UNCHANGED <<board, options, search_thread, stop_event, search_lock>>
  /\ UNCHANGED <<timing, jobs, out>>

cmd_stop ==
  /\ Reads("stop", <<>>)
  /\ stop_search
  /\ UNCHANGED <<board, options, ponder, search_lock, timing, jobs, out>>
  /\ UNCHANGED <<di, dlimits>>

\* "quit" leaving the loop with the search neither signalled nor joined
cmd_quit_no_stop ==
  /\ Reads("quit", <<>>)
  /\ dpc' = "done" /\ raised' = FALSE /\ NoLocals
  /\ UNCHANGED <<engine, timing, jobs, out>>

cmd_quit ==
  /\ Reads("quit", <<>>)
  /\ stop_search
  /\ UNCHANGED <<board, options, ponder, search_lock, timing, jobs, out>>
  /\ UNCHANGED <<di, dlimits>>

\* readline returned "": run leaves the loop, and its "finally" stops the search
end_of_input ==
  /\ dpc = "read"
  /\ dcall' = "run"
  /\ dtokens' = <<>>
  /\ stop_search
  /\ UNCHANGED <<board, options, ponder, search_lock, timing, jobs, out>>
  /\ UNCHANGED <<di, dlimits, nread>>

cmd_ucinewgame ==
  /\ Reads("ucinewgame", <<>>)
  /\ board' = StartBoard
  /\ stop_search
  /\ UNCHANGED <<options, ponder, search_lock, timing, jobs, out>>
  /\ UNCHANGED <<di, dlimits>>

----------------------------------------------------------------------------
(* uci and setoption *)

\* the name and author the script at the end of py_uci.py passes
EngineName == "MinimalPyUCI"
EngineAuthor == "ciaranmcguinness"

RECURSIVE setoption_scan(_, _, _)
\* the loop of _cmd_setoption from index i (counted from 1); acc holds name and
\* value, each a sequence of words, with hasName/hasValue FALSE for None
setoption_scan(tokens, i, acc) ==
  IF i > Len(tokens) THEN acc
  ELSE IF tokens[i] = "name" THEN
    LET stops == {k \in (i + 1)..Len(tokens) : tokens[k] = "value"}
        e == IF stops = {} THEN Len(tokens) + 1
             ELSE CHOOSE k \in stops : \A k2 \in stops : k <= k2
    IN  setoption_scan(tokens, e,
          [acc EXCEPT !.hasName = TRUE, !.name = SubSeq(tokens, i + 1, e - 1)])
  ELSE IF tokens[i] = "value" THEN
    [acc EXCEPT !.hasValue = TRUE, !.value = SubSeq(tokens, i + 1, Len(tokens))]
  ELSE setoption_scan(tokens, i + 1, acc)

setoption_parse(tokens) ==
  setoption_scan(tokens, 1,
    [hasName |-> FALSE, name |-> <<>>, hasValue |-> FALSE, value |-> <<>>])

\* the words of f"{value}": None prints as "None"
ValueWords(p) == IF p.hasValue THEN p.value ELSE <<None>>

\* an assignment to self.options[name] that leaves an entry already there alone
set_option_keeps(opts, name, info) ==
  IF \E k \in 1..Len(opts) : opts[k][1] = name
  THEN opts
  ELSE Append(opts, <<name, info>>)

\* self.options[name] = info, on a dict that keeps insertion order
set_option(opts, name, info) ==
  IF \E k \in 1..Len(opts) : opts[k][1] = name
  THEN [k \in 1..Len(opts) |-> IF opts[k][1] = name THEN <<name, info>> ELSE opts[k]]
  ELSE Append(opts, <<name, info>>)

cmd_setoption(tokens) ==
  /\ Reads("setoption", tokens)
  /\ LET p == setoption_parse(tokens)
         info == [type |-> "string", default |-> ValueWords(p)]
     IN  options' = IF p.hasName
                    THEN set_option(set_option(options, p.name, info), p.name, info)
                    ELSE options
  /\ Returned
  /\ UNCHANGED <<board, ponder, search_thread, stop_event, search_lock>>
  /\ UNCHANGED <<timing, jobs, out>>

RECURSIVE var_words(_)
\* " var v" for every v of opt_info["var"]
var_words(vs) == IF vs = <<>> THEN <<>> ELSE <<"var", Head(vs)>> \o var_words(Tail(vs))

\* the option line of one entry of self.options: opt_info is a dict that may
\* have the keys type, default, min, max and var
option_line(opt) ==
  LET opt_info == opt[2]
      has(key) == key \in DOMAIN opt_info
  IN  <<"option", "name">> \o opt[1]
        \o <<"type", IF has("type") THEN opt_info["type"] ELSE "spin">>
        \o (IF has("default") THEN <<"default">> \o opt_info["default"] ELSE <<>>)
        \o (IF has("min") THEN <<"min", opt_info["min"]>> ELSE <<>>)
        \o (IF has("max") THEN <<"max", opt_info["max"]>> ELSE <<>>)
        \o (IF has("var") THEN var_words(opt_info["var"]) ELSE <<>>)

\* _cmd_uci sending "uciok" before the option lines
cmd_uci_uciok_first ==
  /\ Reads("uci", <<>>)
  /\ send(<<(<<"id", "name", EngineName>>), (<<"id", "author", EngineAuthor>>)>>
            \o <<(<<"uciok">>)>>
            \o [k \in 1..Len(options) |-> option_line(options[k])], 0)
  /\ Returned
  /\ UNCHANGED <<engine, timing, jobs>>

cmd_uci ==
  /\ Reads("uci", <<>>)
  /\ send(<<(<<"id", "name", EngineName>>), (<<"id", "author", EngineAuthor>>)>>
            \o [k \in 1..Len(options) |-> option_line(options[k])]
            \o <<(<<"uciok">>)>>, 0)
  /\ Returned
  /\ UNCHANGED <<engine, timing, jobs>>

\* the registrations of the host script dilute.py, in its order:
\* <<name, kind, min, max, default>>, None for an argument not given
HostRegistrations ==
  << <<(<<"Dilution">>), "spin", "0", "100", <<"50">> >>,
     <<(<<"Engine", "Path">>), "string", None, None, <<"./stockfish">> >> >>

\* the entry register(name, kind, min?, max?, default) leaves in the registry
registered_info(kind, min, max, default) ==
  LET keys == {"type", "default"}
                \cup (IF min = None THEN {} ELSE {"min"})
                \cup (IF max = None THEN {} ELSE {"max"})
  IN  [key \in keys |->
         CASE key = "type" -> kind
           [] key = "default" -> default
           [] key = "min" -> min
           [] key = "max" -> max]

\* the host registers its next option; it does so before it calls run()
register_option ==
  /\ dpc = "read" /\ nread = 0
  /\ Len(options) < Len(HostRegistrations)
  /\ LET r == HostRegistrations[Len(options) + 1]
     IN  options' = set_option(options, r[1], registered_info(r[2], r[3], r[4], r[5]))
  /\ UNCHANGED <<board, ponder, search_thread, stop_event, search_lock>>
  /\ UNCHANGED <<timing, jobs, out, disp>>

----------------------------------------------------------------------------
(* position *)

\* after the root is set: the "moves" loop starts when there is a "moves" word
\* at i and a token after it
position_moves(tokens, i) ==
  IF i <= Len(tokens) /\ tokens[i] = "moves" /\ i + 1 <= Len(tokens)
  THEN /\ dpc' = "moves" /\ raised' = FALSE
       /\ di' = i + 1 /\ UNCHANGED <<dth, dlimits>>
  ELSE Returned

\* chess.Board(fen) raises before self.board is assigned
cmd_position_raises(tokens) ==
  /\ Len(tokens) > 0
  /\ tokens[1] = "fen"
  /\ fen_raises(SubSeq(tokens, 2, 7))

\* _cmd_position up to its loop over the move tokens
cmd_position(tokens) ==
  /\ Reads("position", tokens)
  /\ IF cmd_position_raises(tokens) THEN Caught /\ UNCHANGED board
     ELSE IF tokens = <<>> THEN Returned /\ UNCHANGED board
     ELSE IF tokens[1] = "startpos"
       THEN board' = StartBoard /\ position_moves(tokens, 2)
     ELSE IF tokens[1] = "fen"
       THEN board' = BoardOfFen(SubSeq(tokens, 2, 7)) /\ position_moves(tokens, 8)
     ELSE board' = board /\ position_moves(tokens, 1)
  /\ UNCHANGED <<options, ponder, search_thread, stop_event, search_lock>>
  /\ UNCHANGED <<timing, jobs, out>>

\* the board after one move token when nothing but from_uci raises: a token
\* that does not decode is skipped, a move is pushed whether or not it is legal
apply_token(b, mv) == IF from_uci_raises(mv) THEN b ELSE push(b, from_uci(mv))

\* the boards one turn of the loop can leave for the token mv: a legal move is
\* pushed; a move that is not legal is pushed too, unless push raises, which
\* the "except Exception" of the loop swallows like a token that does not decode
token_outcomes(b, mv) ==
  IF from_uci_raises(mv) THEN {b}
  ELSE IF IsLegal(b, from_uci(mv)) THEN {push(b, from_uci(mv))}
  ELSE {apply_token(b, mv)}
         \cup (IF push_may_raise(b, from_uci(mv)) THEN {b} ELSE {})

\* the loop over the move tokens ending one token early
position_move_short ==
  /\ dpc = "moves"
  /\ IF di + 1 > Len(dtokens) THEN Returned /\ UNCHANGED board
     ELSE /\ board' \in token_outcomes(board, dtokens[di])
          /\ di' = di + 1 /\ UNCHANGED <<dpc, dth, dlimits, raised>>
  /\ UNCHANGED <<options, ponder, search_thread, stop_event, search_lock>>
  /\ UNCHANGED <<timing, jobs, out, dcall, dtokens, nread>>

\* one turn of the loop over the move tokens
position_move ==
  /\ dpc = "moves"
  /\ board' \in token_outcomes(board, dtokens[di])
  /\ IF di + 1 > Len(dtokens) THEN Returned
     ELSE di' = di + 1 /\ UNCHANGED <<dpc, dth, dlimits, raised>>
  /\ UNCHANGED <<options, ponder, search_thread, stop_event, search_lock>>
  /\ UNCHANGED <<timing, jobs, out, dcall, dtokens, nread>>

----------------------------------------------------------------------------
(* go, and the end of every _stop_search *)

\* _start_search without its _stop_search: the new worker is spawned with the
\* old one neither signalled nor joined
cmd_go_nostop(tokens) ==
  /\ Reads("go", tokens)
  /\ Len(jobs) < MaxJobs
  /\ IF parse_go_raises(tokens, board)
     THEN Caught /\ UNCHANGED engine
     ELSE /\ dlimits' = parse_go(tokens, board)
          /\ ponder' = ("ponder" \in DOMAIN parse_go(tokens, board))
          /\ search_lock' = TRUE
          /\ dth' = 0 /\ dpc' = "join" /\ raised' = FALSE
          /\ UNCHANGED <<board, options, search_thread, stop_event, di>>
  /\ UNCHANGED <<timing, jobs, out>>

cmd_go(tokens) ==
  /\ Reads("go", tokens)
  /\ Len(jobs) < MaxJobs
  /\ IF parse_go_raises(tokens, board)
     THEN Caught /\ UNCHANGED engine
     ELSE /\ dlimits' = parse_go(tokens, board)
          /\ ponder' = ("ponder" \in DOMAIN parse_go(tokens, board))
          /\ search_lock' = TRUE
          /\ stop_search
          /\ UNCHANGED <<board, options, di>>
  /\ UNCHANGED <<timing, jobs, out>>

\* a worker as threading.Thread(...).start() leaves it.  prompt: its Strategy
\* polls the token often enough to be over within the join timeout.  atGo (the
\* live Position when "go" was handled) is kept for the properties only; now is
\* the local of the call of info_callback the worker is in.
NewJob(limits, prompt) ==
  [pc |-> "spawned", limits |-> limits, prompt |-> prompt,
   atGo |-> board, snapshot |-> StartBoard, calls |-> 0, now |-> 0,
   result |-> ReturnsNone]

\* _start_search joining the worker it has just started
after_join_waits(P) ==
  /\ dcall = "go"
  /\ stop_event' = FALSE
  /\ \E prompt \in P : jobs' = Append(jobs, NewJob(dlimits, prompt))
  /\ search_thread' = Len(jobs) + 1
  /\ dth' = Len(jobs) + 1
  /\ dpc' = "join"
  /\ UNCHANGED <<board, options, ponder, search_lock, timing, out>>
  /\ UNCHANGED <<dcall, dtokens, di, dlimits, nread, raised>>

\* what follows th.join in the handler the dispatcher is in; P holds the kinds
\* of Strategy (prompt or not) that a new job may turn out to run
after_join(P) ==
  /\ CASE dcall = "go" ->
            /\ stop_event' = FALSE
            /\ \E prompt \in P : jobs' = Append(jobs, NewJob(dlimits, prompt))
            /\ search_thread' = Len(jobs) + 1
            /\ search_lock' = FALSE
            /\ dpc' = "read"
       [] dcall = "ucinewgame" ->
            /\ stop_event' = FALSE
            /\ dpc' = "read"
            /\ UNCHANGED <<jobs, search_thread, search_lock>>
       [] dcall = "stop" ->
            /\ dpc' = "read"
            /\ UNCHANGED <<jobs, search_thread, search_lock, stop_event>>
       [] dcall = "quit" ->
            \* run's "finally": _stop_search again, with no thread left to join
            /\ stop_event' = TRUE
            /\ search_thread' = 0
            /\ dpc' = "done"
            /\ UNCHANGED <<jobs, search_lock>>
       [] dcall = "run" ->
            /\ dpc' = "done"
            /\ UNCHANGED <<jobs, search_thread, search_lock, stop_event>>
  /\ NoLocals
  /\ UNCHANGED <<board, options, ponder, timing, out, dcall, dtokens, nread, raised>>

\* _stop_search that does not wait for the worker
join_return_nowait(P) ==
  /\ dpc = "join"
  /\ after_join(P)

\* th is None, or th.join returns because the worker has exited
join_return(P) ==
  /\ dpc = "join"
  /\ IF dth = 0 THEN TRUE ELSE jobs[dth].pc = "done"
  /\ after_join(P)

\* th.join() without a timeout: it returns only when the worker has exited
join_without_timeout(P) ==
  /\ dpc = "join"
  /\ dth # 0
  /\ jobs[dth].pc = "done"
  /\ after_join(P)

\* th.join(timeout=5.0) gives up.  A prompt worker (its Strategy polls the
\* token often enough) has exited before the five seconds are over.
join_timeout(P) ==
  /\ dpc = "join"
  /\ dth # 0
  /\ jobs[dth].pc # "done"
  /\ ~jobs[dth].prompt
  /\ after_join(P)

----------------------------------------------------------------------------
(* The workers: _search_worker, one per job *)

\* the worker evaluates self.board.copy(stack=False) and calls search_fn with it
worker_call(j) ==
  /\ jobs[j].pc = "spawned"
  /\ jobs' = [jobs EXCEPT ![j].pc = "running", ![j].snapshot = copy(board)]
  /\ UNCHANGED <<engine, timing, out, disp>>

\* the Strategy calls info_callback, which reads time.time(), moved on by dt,
\* and compares it with self._last_info_time; the call is over when the test
\* fails, and goes on to _send_info when it passes
info_callback(j, dt) ==
  /\ jobs[j].pc = "running"
  /\ jobs[j].calls < MaxInfoCalls
  /\ clock + dt <= MaxClock
  /\ clock' = clock + dt
  /\ IF (clock + dt) - last_info_time >= InfoInterval
     THEN jobs' = [jobs EXCEPT ![j].calls = @ + 1, ![j].pc = "sending",
                               ![j].now = clock + dt]
     ELSE jobs' = [jobs EXCEPT ![j].calls = @ + 1]
  /\ UNCHANGED <<engine, last_info_time, out, disp>>

\* the rest of a call of info_callback that passed the test: _send_info, and
\* "finally" self._last_info_time = now; the call returns to the Strategy
info_send(j) ==
  /\ jobs[j].pc = "sending"
  /\ send(<<send_info_line(InfoEvent(jobs[j].snapshot))>>, j)
  /\ last_info_time' = jobs[j].now
  /\ jobs' = [jobs EXCEPT ![j].pc = "running", ![j].now = 0]
  /\ UNCHANGED <<engine, clock, disp>>

\* what the Strategies of the model hand back for the position b they were given
Results(b) ==
  {ReturnsNone, Raises}
    \cup (IF Len(legal_moves(b)) = 0 THEN {}
          ELSE LET m == Head(legal_moves(b)) IN
               {Returns(MoveObj(m)), ReturnsPair(StrObj(uci(m)), StrObj("e7e5"))})

\* search_fn is over: it returned, or raised
strategy_return(j, r) ==
  /\ jobs[j].pc = "running"
  /\ jobs' = [jobs EXCEPT ![j].pc = "returned", ![j].result = r]
  /\ UNCHANGED <<engine, timing, out, disp>>

\* a worker that sends its bestmove line while search_fn is still running
worker_bestmove_early(j) ==
  /\ jobs[j].pc = "running"
  /\ \A k \in 1..Len(out) : out[k].job # j \/ out[k].line[1] # "bestmove"
  /\ send(<<bestmove_line(ReturnsNone, board)>>, j)
  /\ UNCHANGED <<engine, timing, jobs, disp>>

\* the rest of _search_worker: the bestmove line, with the fallback move taken
\* from self.board as it is now; the thread ends
worker_bestmove(j) ==
  /\ jobs[j].pc = "returned"
  /\ send(<<bestmove_line(jobs[j].result, board)>>, j)
  /\ jobs' = [jobs EXCEPT ![j].pc = "done"]
  /\ UNCHANGED <<engine, timing, disp>>

\* the steps of the worker of job j whose Strategy reports nothing
search_worker(j) ==
  \/ worker_call(j)
  \/ \E r \in Results(jobs[j].snapshot) : strategy_return(j, r)
  \/ worker_bestmove(j)

----------------------------------------------------------------------------
(* The engine under a client that sends any of these lines in any order *)

BadFen == <<"rnbqkbnr/pppppppp", "w", "KQkq", "-", "0", "1">>

PositionInputs ==
  { <<"startpos", "moves", "e2e4">>,
    <<"fen">> \o FenMated,
    <<"fen">> \o BadFen }

GoInputs == { <<"movetime", "100">>, <<"movetime", "soon">> }

SetoptionInputs == { <<"name", "Dilution", "value", "75">> }

\* first words that name no command
UnknownInputs == { "positon" }

Dispatcher ==
  \/ cmd_uci
  \/ cmd_isready
  \/ \E t \in SetoptionInputs : cmd_setoption(t)
  \/ cmd_ucinewgame
  \/ \E t \in PositionInputs : cmd_position(t)
  \/ position_move
  \/ \E t \in GoInputs : cmd_go(t)
  \/ cmd_stop
  \/ cmd_ponderhit
  \/ cmd_quit
  \/ \E c \in UnknownInputs : unknown_command(c)
  \/ end_of_input
  \/ join_return(BOOLEAN)
  \/ join_timeout(BOOLEAN)

Next == Dispatcher \/ \E j \in Jobs : search_worker(j)

Spec == Init /\ [][Next]_vars

----------------------------------------------------------------------------
(* The engine with Strategies that report progress and are all prompt,      *)
(* under a client that starts and stops searches                            *)

InfoGoInputs == { <<"movetime", "100">> }

NextInfo ==
  \/ \E t \in InfoGoInputs : cmd_go(t)
  \/ cmd_stop
  \/ cmd_isready
  \/ join_return({TRUE})
  \/ \E j \in Jobs : search_worker(j)
  \/ \E j \in Jobs : \E dt \in 0..InfoInterval : info_callback(j, dt)
  \/ \E j \in Jobs : info_send(j)

SpecInfo == Init /\ [][NextInfo]_vars

----------------------------------------------------------------------------
(* The engine with Strategies that report progress and never poll the       *)
(* token, under a client that starts searches                               *)

NextReport ==
  \/ \E t \in InfoGoInputs : cmd_go(t)
  \/ join_return({FALSE})
  \/ join_timeout({FALSE})
  \/ \E j \in Jobs : search_worker(j)
  \/ \E j \in Jobs : \E dt \in 0..InfoInterval : info_callback(j, dt)
  \/ \E j \in Jobs : info_send(j)

SpecReport == Init /\ [][NextReport]_vars

----------------------------------------------------------------------------
(* The engine under a client that starts, stops and ends searches, with     *)
(* time passing: a join that can return or give up does so, and the worker  *)
(* of a prompt Strategy is scheduled until it has exited.  Nothing is       *)
(* assumed of the worker of a Strategy that is not prompt: it may never     *)
(* return.                                                                  *)

NextLifecycle ==
  \/ \E t \in InfoGoInputs : cmd_go(t)
  \/ cmd_stop
  \/ cmd_ucinewgame
  \/ cmd_quit
  \/ end_of_input
  \/ join_return(BOOLEAN)
  \/ join_timeout(BOOLEAN)
  \/ \E j \in Jobs : search_worker(j)

FairLifecycle ==
  /\ Init /\ [][NextLifecycle]_vars
  /\ WF_vars(join_return(BOOLEAN) \/ join_timeout(BOOLEAN))
  /\ \A j \in 1..MaxJobs : WF_vars(j \in Jobs /\ jobs[j].prompt /\ search_worker(j))

----------------------------------------------------------------------------
(* The engine under a client that sets the side to move and starts          *)
(* searches with any of these limits; the workers are not scheduled         *)

GoPairs ==
  {<<k, v>> : k \in {"movetime", "wtime", "btime", "winc", "movestogo"},
              v \in {"100", "soon"}}

AllGoInputs ==
  { <<>>, <<"infinite">>, <<"ponder", "depth", "1">>, <<"movetime">>,
    <<"wtime", "2000", "btime", "100", "winc", "1", "binc", "1">> }
    \cup GoPairs
    \cup {pq[1] \o pq[2] : pq \in {x \in GoPairs \X GoPairs : x[1][1] # x[2][1]}}

SideInputs == { <<"startpos">>, <<"fen">> \o FenBlack }

NextGo ==
  \/ \E t \in SideInputs : cmd_position(t)
  \/ \E t \in AllGoInputs : cmd_go(t)
  \/ join_return({FALSE})
  \/ join_timeout({FALSE})

SpecGo == Init /\ [][NextGo]_vars

----------------------------------------------------------------------------
(* The engine under a client that only sets up positions *)

MoveTokens == DecodableTokens \cup {"zz"}

\* the sequences of one to n move tokens
TokenLists(n) == UNION {[1..k -> MoveTokens] : k \in 1..n}

AllPositionInputs ==
  { <<"startpos">>, <<"startpos", "moves">>, <<"fen">> \o FenMated, <<"fen">> \o BadFen }
    \cup {<<"startpos", "moves">> \o ts : ts \in TokenLists(MaxMoves)}
    \cup {<<"fen">> \o FenBlack \o <<"moves">> \o ts : ts \in TokenLists(1)}

NextPosition ==
  \/ \E t \in AllPositionInputs : cmd_position(t)
  \/ position_move

SpecPosition == Init /\ [][NextPosition]_vars

----------------------------------------------------------------------------
(* The engine of a host that registers options, under a client that sets    *)
(* options and asks for them                                                *)

AllSetoptionInputs ==
  { <<"name", "Dilution", "value", "75">>,
    <<"name", "Dilution", "value", "100">>,
    <<"name", "Engine", "Path", "value", "./sf">>,
    <<"name", "Book", "value", "my", "book.bin">>,
    <<"name", "name", "value", "name", "x">>,
    <<"name", "Clear", "Hash">>,
    <<"value", "5">> }

NextOptions ==
  \/ register_option
  \/ cmd_uci
  \/ \E t \in AllSetoptionInputs : cmd_setoption(t)

SpecOptions == Init /\ [][NextOptions]_vars

----------------------------------------------------------------------------
(* Words for the properties *)

\* the places in the output o of the "bestmove" lines of job j
BestmoveIn(o, j) == {k \in 1..Len(o) : o[k].job = j /\ o[k].line[1] = "bestmove"}

BestmoveAt(j) == BestmoveIn(out, j)

\* the places in out of the "info" lines of job j
InfoAt(j) == {k \in 1..Len(out) : out[k].job = j /\ out[k].line[1] = "info"}

\* search_fn of job j has been called and is not over
Searching(j) == jobs[j].pc \in {"running", "sending"}

\* the worker thread of job j is alive
Alive(j) == jobs[j].pc # "done"

\* the handler of the line read last is over
HandlerOver == dpc = "read" /\ nread > 0

----------------------------------------------------------------------------
(* C1 *)

\* C1: every "go" the dispatcher handles starts a job, and every job writes
\* exactly one "bestmove" line: none while its worker is alive, one once it has
\* exited.
C1_OneBestmovePerGo ==
  /\ (HandlerOver /\ dcall = "go") =>
       (~raised /\ Len(jobs) > 0 /\ search_thread = Len(jobs))
  /\ \A j \in Jobs :
       Cardinality(BestmoveAt(j)) = (IF jobs[j].pc = "done" THEN 1 ELSE 0)

----------------------------------------------------------------------------
(* C2 *)

\* C2 as stated: at no instant are the workers of two jobs alive.
C2_NeverTwoWorkers ==
  \A j, k \in Jobs : (Alive(j) /\ Alive(k)) => j = k

\* C2, amended: of the workers alive at any instant, only the one spawned last
\* can be prompt: when _start_search spawns a worker, every earlier worker has
\* exited or was given up by a join that timed out.
C2_EarlierWorkersJoinedOrTimedOut ==
  \A j \in Jobs : (Alive(j) /\ j < Len(jobs)) => ~jobs[j].prompt

\* two prompt jobs were run one after the other
C2_Witness ==
  /\ Len(jobs) = 2
  /\ jobs[1].prompt /\ jobs[2].prompt
  /\ ~Alive(1) /\ Searching(2)

----------------------------------------------------------------------------
(* C3 *)

\* C3: the position a job's Strategy is called with is the live Position as it
\* was when the dispatcher handled the job's "go".
C3_SnapshotTakenAtGo ==
  \A j \in Jobs : jobs[j].pc # "spawned" => jobs[j].snapshot = jobs[j].atGo

----------------------------------------------------------------------------
(* C4 *)

\* C4: when a job's Strategy returned None or raised, the move of the job's
\* bestmove line is the first legal move of the job's snapshot, or "(none)".
C4_FallbackFromSnapshot ==
  \A j \in Jobs : \A k \in BestmoveAt(j) :
    jobs[j].result.kind \in {"None", "raise"} =>
      out[k].line = <<"bestmove", fallback_move(jobs[j].snapshot)>>

----------------------------------------------------------------------------
(* C5 *)

\* C5: when the handler of "stop" returns after joining a prompt job, the token
\* is still set, the worker has exited and the job's bestmove line is out.
C5_StopGetsBestmove ==
  [][(dpc = "join" /\ dcall = "stop" /\ dpc' # "join" /\ dth # 0 /\ jobs[dth].prompt)
       => (stop_event' /\ jobs'[dth].pc = "done" /\ BestmoveIn(out', dth) # {})]_vars

\* "stop" was handled while a prompt job was searching: the token is set and
\* the handler waits for the worker
C5_Witness ==
  /\ dpc = "join" /\ dcall = "stop"
  /\ dth # 0 /\ jobs[dth].prompt /\ Searching(dth)
  /\ stop_event

----------------------------------------------------------------------------
(* C6 *)

\* C6: a job's bestmove line is out only when its worker has exited, which it
\* does only after search_fn is over, and every info line of the job comes
\* before it.
C6_InfoBeforeBestmove ==
  \A j \in Jobs :
    /\ BestmoveAt(j) # {} => jobs[j].pc = "done"
    /\ \A k \in InfoAt(j) : \A b \in BestmoveAt(j) : k < b

\* a job has written an info line and then its bestmove line
C6_Witness ==
  \E j \in Jobs : InfoAt(j) # {} /\ BestmoveAt(j) # {}

----------------------------------------------------------------------------
(* C7 *)

ReadyokLine == [line |-> <<"readyok">>, job |-> 0]

\* C7: the step of the "go" handler that spawns the worker hands control back
\* to the read loop with the worker not yet run, and every "isready" read is
\* answered in the step that reads it, whatever the workers are doing.
C7_GoReturnsAtOnce ==
  [][/\ (dcall = "go" /\ Len(jobs') > Len(jobs)) =>
          (dpc' = "read" /\ jobs'[Len(jobs')].pc = "spawned"
             /\ search_thread' = Len(jobs'))
     /\ (nread' = nread + 1 /\ dcall' = "isready") =>
          (out' = Append(out, ReadyokLine) /\ dpc' = "read")
     /\ (nread' = nread + 1 /\ dcall' = "stop") =>
          (stop_event' /\ dth' = search_thread)]_vars

\* "isready" was answered while the Strategy of the tracked job was searching
C7_Witness ==
  /\ HandlerOver /\ dcall = "isready"
  /\ search_thread # 0 /\ Searching(search_thread)
  /\ Len(out) > 0 /\ out[Len(out)] = ReadyokLine

----------------------------------------------------------------------------
(* C8 *)

Commands ==
  {"uci", "isready", "setoption", "ucinewgame", "position", "go", "stop",
   "ponderhit", "quit"}

\* C8: reading a line whose first token is no command writes nothing, changes
\* neither the Position, the options, the tracked job, the workers nor the
\* token, and leaves the dispatcher in its read loop; an "isready" read next is
\* answered "readyok".
C8_UnknownIgnored ==
  [][/\ (nread' = nread + 1 /\ dcall' \notin Commands) =>
          /\ out' = out /\ board' = board /\ options' = options
          /\ search_thread' = search_thread /\ stop_event' = stop_event
          /\ jobs' = jobs /\ dpc' = "read" /\ ~raised'
     /\ (dcall \notin Commands /\ nread > 0 /\ nread' = nread + 1 /\ dcall' = "isready") =>
          out' = Append(out, ReadyokLine)]_vars

\* an unknown command was handled while a job was searching and the Position
\* was not the initial one
C8_Witness ==
  /\ HandlerOver /\ dcall \notin Commands
  /\ search_thread # 0 /\ Searching(search_thread)
  /\ board # StartBoard

----------------------------------------------------------------------------
(* C9 *)

\* C9: a line whose handler raises leaves the Position as it was and the
\* dispatcher in its read loop, and run is over only after "quit" or the end
\* of the input.
C9_HandlerFailureKeepsLoop ==
  /\ [][(nread' = nread + 1 /\ raised') => (dpc' = "read" /\ board' = board)]_vars
  /\ [](dpc = "done" => dcall \in {"quit", "run"})

\* a handler raised on a board that an earlier command had set up
C9_Witness ==
  /\ raised /\ HandlerOver
  /\ board # StartBoard

----------------------------------------------------------------------------
(* C10 *)

RECURSIVE LegalLine(_, _)
\* the tokens ts decode to moves that are legal one after the other from b
LegalLine(b, ts) ==
  IF ts = <<>> THEN TRUE
  ELSE /\ ~from_uci_raises(Head(ts))
       /\ IsLegal(b, from_uci(Head(ts)))
       /\ LegalLine(push(b, from_uci(Head(ts))), Tail(ts))

RECURSIVE Play(_, _)
\* the position after the moves of the tokens ts are applied to b in order
Play(b, ts) == IF ts = <<>> THEN b ELSE Play(push(b, from_uci(Head(ts))), Tail(ts))

\* the move tokens of a "position startpos [moves ...]" command
StartposMoves(tokens) == SubSeq(tokens, 3, Len(tokens))

IsStartposCommand(tokens) ==
  /\ Len(tokens) >= 1 /\ tokens[1] = "startpos"
  /\ Len(tokens) >= 2 => tokens[2] = "moves"

\* C10: once "position startpos moves m1 .. mk" with legal m1 .. mk is
\* handled, the Position is the initial position with m1 .. mk applied.
C10_StartposMovesApplied ==
  (HandlerOver /\ dcall = "position" /\ IsStartposCommand(dtokens)
     /\ LegalLine(StartBoard, StartposMoves(dtokens)))
    => board = Play(StartBoard, StartposMoves(dtokens))

\* two legal moves were applied by a command read when the Position was not
\* the initial one
C10_Witness ==
  /\ HandlerOver /\ dcall = "position" /\ nread >= 2
  /\ IsStartposCommand(dtokens)
  /\ Len(StartposMoves(dtokens)) = 2
  /\ LegalLine(StartBoard, StartposMoves(dtokens))

----------------------------------------------------------------------------
(* C11 *)

\* the place of the first "value" word of a setoption line, 0 when it has none
ValueAt(tokens) ==
  IF \E k \in 1..Len(tokens) : tokens[k] = "value"
  THEN CHOOSE k \in 1..Len(tokens) :
         tokens[k] = "value" /\ \A k2 \in 1..(k - 1) : tokens[k2] # "value"
  ELSE 0

\* the line is "setoption name N value V" with at least one word in N
IsNameValue(tokens) ==
  /\ Len(tokens) >= 3
  /\ tokens[1] = "name"
  /\ ValueAt(tokens) >= 3

NameOf(tokens) == SubSeq(tokens, 2, ValueAt(tokens) - 1)
ValueOf(tokens) == SubSeq(tokens, ValueAt(tokens) + 1, Len(tokens))

\* the line is an option line for the name N that shows the value V
ShowsValue(line, N, V) ==
  \E kind \in {"spin", "string", "check", "combo", "button"} :
    line = <<"option", "name">> \o N \o <<"type", kind, "default">> \o V

\* C11: once "setoption name N value V" is handled, the handler has not
\* raised and the registry has one entry for N, holding V; a "uci" read next
\* writes an option line for N that shows V.
C11_SetoptionStoresValue ==
  /\ [](( HandlerOver /\ dcall = "setoption" /\ IsNameValue(dtokens)) =>
         /\ ~raised
         /\ Cardinality({k \in 1..Len(options) : options[k][1] = NameOf(dtokens)}) = 1
         /\ \A k \in 1..Len(options) :
              options[k][1] = NameOf(dtokens) =>
                options[k][2]["default"] = ValueOf(dtokens))
  /\ [][(dcall = "setoption" /\ IsNameValue(dtokens)
           /\ nread' = nread + 1 /\ dcall' = "uci") =>
         \E k \in (Len(out) + 1)..Len(out') :
           ShowsValue(out'[k].line, NameOf(dtokens), ValueOf(dtokens))]_vars

\* "uci" was handled right after a setoption that gave a registered option a
\* new value, and the option line shows that value
C11_Witness ==
  /\ HandlerOver /\ dcall = "uci"
  /\ \E k \in 1..Len(out) :
       out[k].line = <<"option", "name", "Dilution", "type", "string", "default", "100">>
  /\ \E k \in 1..Len(options) :
       options[k][1] = <<"Engine", "Path">> /\ options[k][2]["default"] = <<"./sf">>

----------------------------------------------------------------------------
(* C12 *)

\* the places in the output o of the "info" lines
InfoLines(o) == {k \in 1..Len(o) : o[k].line[1] = "info"}

\* C12: an info line is written only by a call of info_callback made at
\* least InfoInterval after the call that wrote the info line before it; a
\* call made sooner is over at once and writes nothing; and the number of info
\* lines is at most the time elapsed since the engine was made divided by
\* InfoInterval, plus one.
C12_OneInfoPerWindow ==
  /\ [][\A j \in Jobs :
         /\ (jobs[j].pc = "sending" /\ jobs'[j].pc # "sending"
               /\ InfoLines(out') # InfoLines(out)) =>
              jobs[j].now - last_info_time >= InfoInterval
         /\ (jobs'[j].calls = jobs[j].calls + 1
               /\ clock' - last_info_time < InfoInterval) =>
              (jobs'[j].pc = "running" /\ out' = out)]_vars
  /\ [](Cardinality(InfoLines(out)) <= (clock - InfoInterval) \div InfoInterval + 1)

----------------------------------------------------------------------------
(* C13 *)

\* the names of the registry, in its order
OptionNames(opts) == [k \in 1..Len(opts) |-> opts[k][1]]

\* the sequence a is the beginning of the sequence b
IsPrefix(a, b) == Len(a) <= Len(b) /\ SubSeq(b, 1, Len(a)) = a

\* C13: the step that reads "uci" writes "id name", "id author", one option
\* line for every entry of the registry in the registry's order, and "uciok"
\* last, and leaves the dispatcher ready to read the next line; and no step
\* changes the order of the names of the registry: a name is only ever added at
\* its end.
C13_UciLinesInOrder ==
  [][/\ (nread' = nread + 1 /\ dcall' = "uci") =>
          LET L == SubSeq(out', Len(out) + 1, Len(out')) IN
            /\ IsPrefix(out, out')
            /\ Len(L) = Len(options) + 3
            /\ L[1].line = <<"id", "name", EngineName>>
            /\ L[2].line = <<"id", "author", EngineAuthor>>
            /\ \A k \in 1..Len(options) :
                 IsPrefix(<<"option", "name">> \o options[k][1] \o <<"type">>,
                          L[k + 2].line)
            /\ L[Len(L)].line = <<"uciok">>
            /\ dpc' = "read"
     /\ IsPrefix(OptionNames(options), OptionNames(options'))]_vars

\* "uci" was handled with three options in the registry, the first of which
\* got a new value after the third was added
C13_Witness ==
  /\ HandlerOver /\ dcall = "uci"
  /\ Len(options) = 3 /\ Len(out) = 6
  /\ options[1][1] = <<"Dilution">> /\ options[1][2]["default"] = <<"75">>
  /\ options[3][1] = <<"Book">>
  /\ IsPrefix(<<"option", "name", "Book">>, out[5].line)

----------------------------------------------------------------------------
(* C14 *)

\* C14: the handler of "ucinewgame" leaves the Position alone as long as the
\* worker of the tracked job is alive and not given up: the step that reads the
\* line sets the token and starts the join, and the Position is reset only by
\* the step that ends the join; when the handler returns the Position is the
\* initial one, no job is tracked and the token is clear.
C14_ResetAfterJoin ==
  [][/\ (nread' = nread + 1 /\ dcall' = "ucinewgame"
            /\ search_thread # 0 /\ Alive(search_thread)) =>
          (stop_event' /\ dpc' = "join" /\ board' = board)
     /\ (dcall = "ucinewgame" /\ dpc = "join" /\ dpc' # "join") =>
          (board' = StartBoard /\ search_thread' = 0 /\ ~stop_event')]_vars

----------------------------------------------------------------------------
(* C15 *)

\* C15: whenever the handler of "go", "stop", "ucinewgame" or "quit" (or the
\* end of run) waits in its join, it gets past the join, whatever the worker
\* does: "go" then has spawned its worker and the dispatcher reads on, "stop"
\* and "ucinewgame" leave the dispatcher reading on, and "quit" ends run.
C15_HandlersTerminate ==
  /\ \A n \in 0..MaxJobs :
       (dpc = "join" /\ dcall = "go" /\ Len(jobs) = n)
         ~> (dpc = "read" /\ dcall = "go" /\ Len(jobs) = n + 1)
  /\ \A c \in {"stop", "ucinewgame"} :
       (dpc = "join" /\ dcall = c) ~> (dpc = "read" /\ dcall = c)
  /\ \A c \in {"quit", "run"} :
       (dpc = "join" /\ dcall = c) ~> (dpc = "done" /\ dcall = c)

\* the handler of "go" has returned with its worker spawned, while the worker
\* of the job before, whose Strategy does not poll, is still searching
C15_Witness ==
  /\ HandlerOver /\ dcall = "go"
  /\ Len(jobs) = 2 /\ search_thread = 2
  /\ ~jobs[1].prompt /\ Searching(1)

----------------------------------------------------------------------------
(* C16 *)

\* cancellation has been requested for job j: _stop_search has run since j was
\* spawned (only _stop_search makes the tracked job untracked)
Cancelled(j) == search_thread # j

\* C16: as long as the worker of a job for which cancellation has been
\* requested is alive, the token its Strategy polls is set.
C16_TokenStaysSet ==
  \A j \in Jobs : (Cancelled(j) /\ Alive(j)) => stop_event

----------------------------------------------------------------------------
(* C17 *)

\* C17: every turn of the loop over the move tokens takes the next token: one
\* that does not decode leaves the Position as it is, one that decodes is
\* applied to the Position whether or not the move is legal; the loop then
\* goes on to the token after it, and the handler returns after the last.
C17_EveryTokenApplied ==
  [][(dpc = "moves") =>
       /\ board' = (IF from_uci_raises(dtokens[di]) THEN board
                    ELSE push(board, from_uci(dtokens[di])))
       /\ IF di < Len(dtokens)
          THEN dpc' = "moves" /\ di' = di + 1 /\ dtokens' = dtokens
          ELSE dpc' = "read" /\ ~raised']_vars

----------------------------------------------------------------------------
(* C18 *)

\* the "go" line gives the key: it stands at an odd place, followed by a value
\* (the lines of AllGoInputs are made of key-value pairs, flags last or first)
GivenAt(tokens, key) ==
  {i \in 1..(Len(tokens) - 1) : tokens[i] = key /\ tokens[i + 1] \notin NumKeys}

Given(tokens, key) == GivenAt(tokens, key) # {}

GivenValue(tokens, key) == tokens[(CHOOSE i \in GivenAt(tokens, key) : TRUE) + 1]

\* the limits of the "go" line read last: those of the handler while it is in
\* its join, those of the job it spawned afterwards
LimitsOfGo == IF dpc = "join" THEN dlimits ELSE jobs[Len(jobs)].limits

\* the key the claim derives time from, or None
ClaimedTimeKey ==
  IF Given(dtokens, "movetime") THEN "movetime"
  ELSE IF turn(board) = WHITE /\ Given(dtokens, "wtime") THEN "wtime"
  ELSE IF turn(board) = BLACK /\ Given(dtokens, "btime") THEN "btime"
  ELSE None

\* C18: every "go" line yields limits: each of the nine keyed fields in them
\* holds an integer, and time is a thousandth of movetime when movetime is
\* given, else of the clock of the side to move when that is given, and is
\* absent otherwise, whatever winc, binc and movestogo are.
C18_TimeFromLimits ==
  (dcall = "go" /\ nread > 0 /\ dpc \in {"join", "read"}) =>
    /\ ~raised
    /\ \A key \in NumKeys \cap DOMAIN LimitsOfGo : LimitsOfGo[key].tag = "int"
    /\ IF ClaimedTimeKey = None THEN "time" \notin DOMAIN LimitsOfGo
       ELSE /\ "time" \in DOMAIN LimitsOfGo
            /\ LimitsOfGo["time"] = FloatVal(int(GivenValue(dtokens, ClaimedTimeKey)))

----------------------------------------------------------------------------
(* C19 *)

\* C19: the step that reads "quit" sets the token, stops tracking the job and
\* starts its join; once "quit" is read no further line is read, and the
\* dispatcher only ends its join and then stays done; and whenever run is
\* over, after "quit" or at the end of the input, the token is set and no job
\* is tracked.
C19_QuitEndsRun ==
  /\ [][/\ (nread' = nread + 1 /\ dcall' = "quit") =>
             (stop_event' /\ dth' = search_thread /\ search_thread' = 0
                /\ dpc' = "join")
        /\ (dcall = "quit" /\ nread > 0) =>
             (nread' = nread /\ dcall' = "quit" /\ dpc' \in {"join", "done"}
                /\ board' = board /\ options' = options /\ Len(jobs') = Len(jobs))
        /\ (dpc = "done") => (dpc' = "done")]_vars
  /\ [](dpc = "done" =>
         (dcall \in {"quit", "run"} /\ stop_event /\ search_thread = 0))

\* run is over after "quit" with input left unread, the join of the job having
\* timed out: its worker is alive, the token is set, no job is tracked
C19_Witness ==
  /\ dpc = "done" /\ dcall = "quit" /\ nread < MaxLines
  /\ \E j \in Jobs : Alive(j)
  /\ stop_event /\ search_thread = 0

----------------------------------------------------------------------------
(* C20 *)

\* what "uci" shows of an entry besides its value: kind, min, max and choices
Shape(opt_info) == [key \in DOMAIN opt_info \ {"default"} |-> opt_info[key]]

\* C20: a step that reads "setoption" leaves every entry of the registry
\* where it is, with its kind, min, max and choices, and leaves the entries of
\* all names but the one it sets as they are; and no step removes a name from
\* the registry.
C20_SetoptionChangesValueOnly ==
  [][/\ (nread' = nread + 1 /\ dcall' = "setoption") =>
          \A k \in 1..Len(options) :
            /\ k <= Len(options')
            /\ options'[k][1] = options[k][1]
            /\ Shape(options'[k][2]) = Shape(options[k][2])
            /\ setoption_parse(dtokens').name # options[k][1] =>
                 options'[k] = options[k]
     /\ \A k \in 1..Len(options) :
          \E k2 \in 1..Len(options') : options'[k2][1] = options[k][1]]_vars

====
